---- MODULE Spec2Model ----
(***************************************************************************)
(* A model of the provider-fallback and caching core of interviewMe:       *)
(*   - TextGenerationService (src/ai/text_generation/text_generation.py):  *)
(*     generate_completion / generate_chat_completion with their fallback  *)
(*     between the Perplexity and the Hugging Face adapters;               *)
(*   - VoiceSynthesisService (src/ai/voice_synthesis/service.py):          *)
(*     synthesize_text with its file cache, and _get_cache_filename.       *)
(* Coroutines are interleaved at their await points: every action is the   *)
(* code that runs between two suspensions of one call.                     *)
(***************************************************************************)
EXTENDS Integers, Sequences, FiniteSets, TLC

VARIABLES
    \* ---- TextGenerationService -------------------------------------
    configured,     \* the provider argument of __init__ (lower-cased)
    provider,       \* self.provider
    pc,             \* per call: where the coroutine is suspended
    api,            \* per call: "completion" or "chat"
    old_provider,   \* per call: the local old_provider of the except block
    attempts,       \* per call: the adapters invoked so far, in order
    e,              \* per call: the exception the handler caught (local e)
    outcome,        \* per call: what the call returned or raised
    \* ---- VoiceSynthesisService ------------------------------------
    cache0,         \* the files of cache_dir when the service is constructed
    cache,          \* the files of cache_dir now
    spc,            \* per call: where synthesize_text is suspended
    text,           \* per call: the text argument
    use_cache,      \* per call: the use_cache argument
    audio_content,  \* per call: the local audio_content
    sresult,        \* per call: what synthesize_text returned or raised
    provider_calls, \* per call: invocations of _synthesize_text_sync
    read_error,     \* per call: "Error reading cache file" was printed
    write_error,    \* per call: "Error writing cache file" was printed
    \* ---- _get_cache_filename on two requests ------------------------
    req1, req2,     \* two synthesis requests
    file1, file2,   \* their cache filenames, once computed
    \* ---- the inputs of a generate call and the provider config file ----
    config,         \* self.config, the YAML file of the configured provider
    prompt,         \* the prompt argument of generate_completion
    messages,       \* the messages argument of generate_chat_completion
    kwargs,         \* the keyword arguments of the call
    \* ---- service accessors and constructors -------------------------
    environ,        \* the environment variables that are set
    declared,       \* Settings declares the Perplexity attributes
    objects,        \* the service objects constructed so far, in order
    _llm_service,   \* the module global of llm.py
    _voice_synthesis_service,   \* the module global of service.py
    _service_instances,         \* the module dict of factory.py
    acc_log,        \* the accessor and constructor calls made, in order
    sent,           \* the Authorization headers the services have sent
    \* ---- count_tokens ---------------------------------------------
    tok_service,    \* the class whose count_tokens is called
    tok_text,       \* the text argument
    tok_count,      \* the value returned, 0 before the call
    \* ---- POST /api/nlp/analyze -------------------------------------
    nlp_request,    \* the NLPAnalysisRequest being handled
    nlp_pc,         \* where the handler is: idle, received, answered
    nlp_analyzer,   \* what became of TextAnalyzer(...) and analyze(...)
    nlp_response,   \* the response the client gets
    nlp_handled     \* the number of requests answered so far

genVars == <<configured, provider, pc, api, old_provider, attempts, e, outcome>>

synthVars == <<cache0, cache, spc, text, use_cache, audio_content, sresult,
               provider_calls, read_error, write_error>>

keyVars == <<req1, req2, file1, file2>>

reqVars == <<config, prompt, messages, kwargs>>

accVars == <<environ, declared, objects, _llm_service, _voice_synthesis_service,
             _service_instances, acc_log, sent>>

tokVars == <<tok_service, tok_text, tok_count>>

nlpVars == <<nlp_request, nlp_pc, nlp_analyzer, nlp_response, nlp_handled>>

vars == <<genVars, synthVars, keyVars, reqVars, accVars, tokVars, nlpVars>>

(***************************************************************************)
(* Bounds                                                                  *)
(***************************************************************************)
NumCalls == 2

Calls == 1..NumCalls

NumSynthCalls == 2

SynthCalls == 1..NumSynthCalls

\* Audio payloads are byte strings of at most MaxAudioLen bytes.
MaxAudioLen == 2

\* The text and the voice name of the requests given to _get_cache_filename
\* are strings of at most MaxFieldLen characters.
MaxFieldLen == 2

\* A chat call carries at most MaxMessages messages.
MaxMessages == 2

\* At most MaxAccessorCalls accessor and constructor calls are made.
MaxAccessorCalls == 3

\* count_tokens is given texts of at most MaxTextLen characters.
MaxTextLen == 100

\* At most MaxRequests requests reach POST /api/nlp/analyze.
MaxRequests == 2

(***************************************************************************)
(* TextGenerationService                                                   *)
(***************************************************************************)

\* A provider name for which a config file exists. "openai" stands for any
\* name other than the two the dispatch knows.
ProviderNames == {"perplexity", "huggingface", "openai"}

Apis == {"completion", "chat"}

\* What one session.post(...) can come to: a transport error, a non-200
\* status, or a 200 with a body that is well formed, lacks the generated
\* text, or is not JSON at all.
ErrorStatuses == {400, 500}

Responses ==
    [kind : {"http"}, status : {200}, body : {"well_formed", "missing_field", "not_json"}]
    \cup [kind : {"http"}, status : ErrorStatuses, body : {"error_text"}]
    \cup [kind : {"transport"}, status : {0}, body : {"none"}]

Return(by, generated) == [ok |-> TRUE, by |-> by, text |-> generated, type |-> "str", status |-> 0]

Raise(by, type, status) == [ok |-> FALSE, by |-> by, text |-> "", type |-> type, status |-> status]

\* _generate_perplexity_completion and _generate_perplexity_chat end alike:
\* non-200 raises "Perplexity API error: <status>", response.json() raises on
\* a body that is not JSON, and result["choices"][0]["message"]["content"]
\* raises KeyError when the field is missing.
_generate_perplexity_completion(resp) ==
    IF resp.kind = "transport" THEN Raise("perplexity", "ClientError", 0)
    ELSE IF resp.status # 200 THEN Raise("perplexity", "Perplexity API error", resp.status)
    ELSE IF resp.body = "not_json" THEN Raise("perplexity", "ContentTypeError", 0)
    ELSE IF resp.body = "missing_field" THEN Raise("perplexity", "KeyError", 0)
    ELSE Return("perplexity", "content")

\* _generate_huggingface_completion (and _generate_huggingface_chat, which
\* ends in it): non-200 raises "Hugging Face API error: <status>"; a 200 body
\* without "generated_text" yields "" through .get("generated_text", "").
_generate_huggingface_completion(resp) ==
    IF resp.kind = "transport" THEN Raise("huggingface", "ClientError", 0)
    ELSE IF resp.status # 200 THEN Raise("huggingface", "Hugging Face API error", resp.status)
    ELSE IF resp.body = "not_json" THEN Raise("huggingface", "ContentTypeError", 0)
    ELSE IF resp.body = "missing_field" THEN Return("huggingface", "")
    ELSE Return("huggingface", "generated_text")

Adapter(name, resp) ==
    IF name = "perplexity" THEN _generate_perplexity_completion(resp)
    ELSE _generate_huggingface_completion(resp)

NoError == [ok |-> TRUE, by |-> "", text |-> "", type |-> "", status |-> 0]

NoOutcome == [state |-> "pending", ok |-> FALSE, by |-> "", text |-> "", type |-> "", status |-> 0, attempt |-> 0]

Returned(r) == [state |-> "returned", ok |-> TRUE, by |-> r.by, text |-> r.text, type |-> r.type, status |-> r.status, attempt |-> 0]

\* The exception object a call lets escape; attempt tells the objects of the
\* first and of the fallback attempt apart.
Raised(r, n) == [state |-> "raised", ok |-> FALSE, by |-> r.by, text |-> "", type |-> r.type, status |-> r.status, attempt |-> n]

\* A handler that re-raised the exception it caught first (`raise e`).
Reraise_First(first_error, fallback_error) == Raised(first_error, 1)

\* The exception the handler re-raises when the fallback has failed too:
\* the bare `raise` inside `except Exception as fallback_error` re-raises
\* fallback_error, the exception being handled there.
Reraise(first_error, fallback_error) == Raised(fallback_error, 2)

\* A handler that sent its second attempt to the provider it read.
FallbackTarget_Same(p) == IF p \in {"perplexity", "huggingface"} THEN p ELSE "none"

\* The provider the except block falls back to, read from self.provider
\* as it is when the handler runs.
FallbackTarget(p) ==
    IF p = "perplexity" THEN "huggingface"
    ELSE IF p = "huggingface" THEN "perplexity"
    ELSE "none"

\* The provider the try block dispatches on: self.provider, read when the
\* call begins.
DispatchTarget(self_provider) == self_provider

\* TextGenerationService.__init__
GenInit ==
    /\ configured \in ProviderNames
    /\ provider = configured
    /\ pc = [c \in Calls |-> "idle"]
    /\ api = [c \in Calls |-> "none"]
    /\ old_provider = [c \in Calls |-> "none"]
    /\ attempts = [c \in Calls |-> <<>>]
    /\ e = [c \in Calls |-> NoError]
    /\ outcome = [c \in Calls |-> NoOutcome]

\* generate_completion / generate_chat_completion up to the first suspension:
\* the try block reads self.provider and sends the request of that adapter.
\* An unsupported provider raises ValueError, which the handler re-raises.
Begin(c, a) ==
    /\ pc[c] = "idle"
    /\ c > 1 => pc[c - 1] # "idle"      \* calls are numbered as they begin
    /\ api' = [api EXCEPT ![c] = a]
    /\ LET target == DispatchTarget(provider) IN
       IF target \in {"perplexity", "huggingface"}
       THEN /\ pc' = [pc EXCEPT ![c] = "first"]
            /\ attempts' = [attempts EXCEPT ![c] = <<target>>]
            /\ UNCHANGED outcome
       ELSE /\ pc' = [pc EXCEPT ![c] = "done"]
            /\ outcome' = [outcome EXCEPT ![c] = Raised(Raise("none", "ValueError", 0), 1)]
            /\ UNCHANGED attempts
    /\ UNCHANGED <<configured, provider, old_provider, e>>
    /\ UNCHANGED <<synthVars, keyVars, reqVars, accVars, tokVars, nlpVars>>

\* The first adapter's request completes. On success the call returns. On
\* any exception the handler reads self.provider, saves it in old_provider,
\* overwrites it with the other provider and sends that adapter's request.
FirstResponds(c, resp) ==
    /\ pc[c] = "first"
    /\ LET r == Adapter(attempts[c][1], resp)
           target == FallbackTarget(provider) IN
       IF r.ok
       THEN /\ pc' = [pc EXCEPT ![c] = "done"]
            /\ outcome' = [outcome EXCEPT ![c] = Returned(r)]
            /\ UNCHANGED <<provider, old_provider, attempts, e>>
       ELSE IF target = "none"
            THEN /\ pc' = [pc EXCEPT ![c] = "done"]
                 /\ outcome' = [outcome EXCEPT ![c] = Raised(r, 1)]
                 /\ UNCHANGED <<provider, old_provider, attempts, e>>
            ELSE /\ e' = [e EXCEPT ![c] = r]
                 /\ old_provider' = [old_provider EXCEPT ![c] = provider]
                 /\ provider' = target
                 /\ attempts' = [attempts EXCEPT ![c] = Append(@, target)]
                 /\ pc' = [pc EXCEPT ![c] = "fallback"]
                 /\ UNCHANGED outcome
    /\ UNCHANGED <<configured, api>>
    /\ UNCHANGED <<synthVars, keyVars, reqVars, accVars, tokVars, nlpVars>>

\* The fallback adapter's request completes: self.provider is restored from
\* old_provider, and the call returns the result or re-raises.
FallbackResponds(c, resp) ==
    /\ pc[c] = "fallback"
    /\ LET r == Adapter(attempts[c][2], resp) IN
       /\ provider' = old_provider[c]
       /\ pc' = [pc EXCEPT ![c] = "done"]
       /\ e' = [e EXCEPT ![c] = NoError]
       /\ old_provider' = [old_provider EXCEPT ![c] = "none"]
       /\ outcome' = [outcome EXCEPT ![c] =
              IF r.ok THEN Returned(r) ELSE Reraise(e[c], r)]
    /\ UNCHANGED <<configured, api, attempts>>
    /\ UNCHANGED <<synthVars, keyVars, reqVars, accVars, tokVars, nlpVars>>

GenNext ==
    \E c \in Calls :
        \/ \E a \in Apis : Begin(c, a)
        \/ \E resp \in Responses : FirstResponds(c, resp)
        \/ \E resp \in Responses : FallbackResponds(c, resp)


(***************************************************************************)
(* The outbound requests of TextGenerationService                          *)
(***************************************************************************)

\* env_var = f"{self.provider.upper()}_API_KEY"
EnvVar(p) ==
    IF p = "perplexity" THEN "PERPLEXITY_API_KEY"
    ELSE IF p = "huggingface" THEN "HUGGINGFACE_API_KEY"
    ELSE "OPENAI_API_KEY"

\* os.environ.get(name) of a variable that is set: every provider's key is
\* a secret of its own.
EnvValue(name) == "<" \o name \o ">"

\* self.api_key of a service constructed without the api_key argument.
self_api_key == EnvValue(EnvVar(configured))

NoValue == "None"

PerplexityUrl == "https://api.perplexity.ai/chat/completions"

HuggingfaceUrl == "https://api-inference.huggingface.co/models/"

OwnUrl(p) ==
    IF p = "perplexity" THEN PerplexityUrl
    ELSE IF p = "huggingface" THEN HuggingfaceUrl
    ELSE "https://api.openai.com/v1/"

DefaultModelOf(p) == "default_model of " \o p \o ".yaml"

\* yaml.safe_load of config/<provider>.yaml: the provider's default model,
\* and the provider's api_url or no api_url at all.
ConfigFiles(p) ==
    {[api_url |-> u, default_model |-> DefaultModelOf(p)] : u \in {NoValue, OwnUrl(p)}}

\* self.config.get(key, default)
ConfigGet(value, default) == IF value = NoValue THEN default ELSE value

\* self.model of a service constructed without the model argument.
self_model == config.default_model

\* self.temperature, in hundredths.
DefaultTemperature == 70

\* self.max_tokens
DefaultMaxTokens == 1000

\* kwargs.get(k, default)
KwGet(kw, k, default) == IF k \in DOMAIN kw THEN kw[k] ELSE default

NoKwargs == [k \in {} |-> 0]

KwargsSets ==
    {NoKwargs,
     [k \in {"temperature"} |-> 20],
     [k \in {"max_tokens"} |-> 100],
     [k \in {"temperature", "max_tokens"} |-> IF k = "temperature" THEN 20 ELSE 100],
     [k \in {"use_fallback"} |-> 0]}       \* use_fallback=False

\* The request _generate_perplexity_completion posts.
PerplexityCompletionRequest(p, kw) ==
    [url |-> ConfigGet(config.api_url, PerplexityUrl),
     Authorization |-> "Bearer " \o self_api_key,
     json |-> [model |-> self_model,
               messages |-> <<[role |-> "user", content |-> p]>>,
               temperature |-> KwGet(kw, "temperature", DefaultTemperature),
               max_tokens |-> KwGet(kw, "max_tokens", DefaultMaxTokens)]]

\* The request _generate_perplexity_chat posts.
PerplexityChatRequest(msgs, kw) ==
    [url |-> ConfigGet(config.api_url, PerplexityUrl),
     Authorization |-> "Bearer " \o self_api_key,
     json |-> [model |-> self_model,
               messages |-> msgs,
               temperature |-> KwGet(kw, "temperature", DefaultTemperature),
               max_tokens |-> KwGet(kw, "max_tokens", DefaultMaxTokens)]]

\* The request _generate_huggingface_completion posts: the model is part
\* of the URL.
HuggingfaceCompletionRequest(p, kw) ==
    [url |-> ConfigGet(config.api_url, HuggingfaceUrl) \o self_model,
     Authorization |-> "Bearer " \o self_api_key,
     json |-> [inputs |-> p,
               parameters |-> [temperature |-> KwGet(kw, "temperature", DefaultTemperature),
                               max_new_tokens |-> KwGet(kw, "max_tokens", DefaultMaxTokens),
                               return_full_text |-> FALSE]]]

Roles == {"system", "user", "assistant", "tool", "User"}

\* str.lower() on the roles of Roles.
Lower(role) == IF role = "User" THEN "user" ELSE role

\* The loop of _generate_huggingface_chat: the messages of the three known
\* roles, each under its marker; a message of another role adds nothing.
RECURSIVE FlattenMessages(_)
FlattenMessages(msgs) ==
    IF msgs = <<>> THEN ""
    ELSE LET role == Lower(Head(msgs).role)
             content == Head(msgs).content
         IN  (IF role = "system" THEN "<|system|>\n" \o content \o "\n"
              ELSE IF role = "user" THEN "<|user|>\n" \o content \o "\n"
              ELSE IF role = "assistant" THEN "<|assistant|>\n" \o content \o "\n"
              ELSE "")
             \o FlattenMessages(Tail(msgs))

\* A flattening that leaves the assistant's turn unopened.
HuggingfaceChatRequest_NoOpenTurn(msgs, kw) ==
    HuggingfaceCompletionRequest(FlattenMessages(msgs), kw)

\* The request _generate_huggingface_chat posts, through
\* _generate_huggingface_completion.
HuggingfaceChatRequest(msgs, kw) ==
    HuggingfaceCompletionRequest(FlattenMessages(msgs) \o "<|assistant|>\n", kw)

\* The request the adapter `name` posts for a call of kind a.
Request(name, a, p, msgs, kw) ==
    IF name = "perplexity"
    THEN IF a = "completion" THEN PerplexityCompletionRequest(p, kw)
         ELSE PerplexityChatRequest(msgs, kw)
    ELSE IF a = "completion" THEN HuggingfaceCompletionRequest(p, kw)
         ELSE HuggingfaceChatRequest(msgs, kw)

\* The requests call c has posted so far, one for each attempt.
Posted(c) ==
    [i \in 1..Len(attempts[c]) |-> Request(attempts[c][i], api[c], prompt, messages, kwargs)]

Prompts == {"ping"}

Messages == [role : Roles, content : {"ping"}]

\* Any list of messages, the empty one included: the code checks nothing.
MessageLists == UNION {[1..n -> Messages] : n \in 0..MaxMessages}

\* The config file the constructor loads and the arguments of the call.
ReqInit ==
    /\ config \in ConfigFiles(configured)
    /\ prompt \in Prompts
    /\ messages \in MessageLists
    /\ kwargs \in KwargsSets

\* The steps of one call made alone on the service.
OneCallNext ==
    \/ \E a \in Apis : Begin(1, a)
    \/ \E resp \in Responses : FirstResponds(1, resp)
    \/ \E resp \in Responses : FallbackResponds(1, resp)

\* The response of a provider that rejects every request.
RejectStatus == 400

Rejected == [kind |-> "http", status |-> RejectStatus, body |-> "error_text"]

\* Concurrent calls while every request is answered with RejectStatus.
AllRejectedNext ==
    \E c \in Calls :
        \/ \E a \in Apis : Begin(c, a)
        \/ FirstResponds(c, Rejected)
        \/ FallbackResponds(c, Rejected)

(***************************************************************************)
(* VoiceSynthesisService._get_cache_filename                               *)
(***************************************************************************)

\* Numbers are kept in hundredths: 95 is the float 0.95.
\* str(float) as the f-string renders it: 1.0 -> "1.0", 0.95 -> "0.95",
\* -1.0 -> "-1.0", 1.05 -> "1.05".
FormatFloat(h) ==
    LET a  == IF h < 0 THEN -h ELSE h
        ip == a \div 100
        fp == a % 100
    IN  (IF h < 0 THEN "-" ELSE "") \o ToString(ip) \o "." \o
        (IF fp % 10 = 0 THEN ToString(fp \div 10)
         ELSE IF fp < 10 THEN "0" \o ToString(fp)
         ELSE ToString(fp))

\* params_str: the seven fields joined by ":".
ParamsStr(t, voice_name, speaking_rate, pitch, gender, language_code, volume_gain_db) ==
    t \o ":" \o voice_name \o ":" \o FormatFloat(speaking_rate) \o ":" \o
    FormatFloat(pitch) \o ":" \o gender \o ":" \o language_code \o ":" \o
    FormatFloat(volume_gain_db)

\* hashlib.md5(...).hexdigest(), taken as collision-free: the digest of a
\* string is a name that determines the string.
Md5Hex(str) == "md5<" \o str \o ">"

cache_dir == "~/.interviewme/tts_cache"

_get_cache_filename(t, voice_name, speaking_rate, pitch, gender, language_code, volume_gain_db) ==
    cache_dir \o "/" \o "tts_" \o
    Md5Hex(ParamsStr(t, voice_name, speaking_rate, pitch, gender, language_code, volume_gain_db))
    \o ".mp3"

(***************************************************************************)
(* VoiceSynthesisService.synthesize_text                                   *)
(***************************************************************************)

default_language_code == "en-US"

default_voice_name == "en-US-Neural2-F"

DefaultGender == "FEMALE"

DefaultSpeakingRate == 100

DefaultPitch == 0

DefaultVolumeGainDb == 0

\* The text the calls ask for; every other argument is left to its default,
\* so the calls share one cache key.
SynthTexts == {"hello"}

\* cache_filename of a call with text t: language_code and voice_name are
\* None and replaced by the service defaults before the key is computed.
CacheFilename(t) ==
    _get_cache_filename(t, default_voice_name, DefaultSpeakingRate, DefaultPitch,
                        DefaultGender, default_language_code, DefaultVolumeGainDb)

CacheFilenames == {CacheFilename(t) : t \in SynthTexts}

AudioBytes == {"x"}

RECURSIVE BytesUpTo(_)
BytesUpTo(n) ==
    IF n = 0 THEN {<<>>}
    ELSE BytesUpTo(n - 1) \cup {Append(b, x) : b \in BytesUpTo(n - 1), x \in AudioBytes}

\* response.audio_content: any byte string, the empty one included.
AudioPayloads == BytesUpTo(MaxAudioLen)

Prefixes(b) == {SubSeq(b, 1, n) : n \in 0..Len(b)}

Absent == [exists |-> FALSE, data |-> <<>>]

File(b) == [exists |-> TRUE, data |-> b]

\* open(cache_filename, 'wb'): the file is created or truncated to nothing.
Truncate(f) == File(<<>>)

\* A write whose bytes never reach the file.
Overlay_Unflushed(f, b) == f

\* Writing b at offset 0 of a file opened 'wb' earlier: bytes another writer
\* has put beyond Len(b) since the truncation stay.
Overlay(f, b) ==
    File(b \o (IF Len(f.data) > Len(b) THEN SubSeq(f.data, Len(b) + 1, Len(f.data)) ELSE <<>>))

\* What _synthesize_text_sync can come to: audio, or an exception of the
\* Google client.
ProviderOutcomes == [ok : {TRUE}, audio : AudioPayloads] \cup {[ok |-> FALSE, audio |-> <<>>]}

Pending == [state |-> "pending", data |-> <<>>]

ReturnedAudio(b) == [state |-> "returned", data |-> b]

\* A provider error that is swallowed: the call returns no audio.
RaisedError_Swallowed(type) == ReturnedAudio(<<>>)

\* The exception that leaves synthesize_text.
RaisedError(type) == [state |-> "raised", data |-> <<type>>]

\* A cache test that does not look at use_cache.
ShouldCheckCache_AnyCall(uc, exists) == exists

\* `if use_cache and os.path.exists(cache_filename)` taken the wrong way round.
ShouldCheckCache_Inverted(uc, exists) == uc /\ ~exists

\* `if use_cache and os.path.exists(cache_filename)`
ShouldCheckCache(uc, exists) == uc /\ exists

\* A size test that lets an empty file through.
IsCacheHit_AnySize(st_size) == st_size >= 0

\* `if stat_result.st_size > 0`
IsCacheHit(st_size) == st_size > 0

\* A write handler that lets the error escape.
OnWriteError_Propagate(audio) == RaisedError("OSError")

\* `except Exception as e: print(...)` around the cache write, then
\* `return audio_content`.
OnWriteError(audio) == ReturnedAudio(audio)

FileOf(c) == CacheFilename(text[c])

NoneInFlight == \A d \in SynthCalls : spc[d] \in {"idle", "done"}

\* VoiceSynthesisService.__init__: cache_dir is kept from earlier runs, so
\* any file may be there, absent, empty or holding audio.
SynthInit ==
    /\ cache0 \in [CacheFilenames -> {Absent} \cup {File(b) : b \in AudioPayloads}]
    /\ cache = cache0
    /\ spc = [c \in SynthCalls |-> "idle"]
    /\ text = [c \in SynthCalls |-> ""]
    /\ use_cache = [c \in SynthCalls |-> FALSE]
    /\ audio_content = [c \in SynthCalls |-> <<>>]
    /\ sresult = [c \in SynthCalls |-> Pending]
    /\ provider_calls = [c \in SynthCalls |-> 0]
    /\ read_error = [c \in SynthCalls |-> FALSE]
    /\ write_error = [c \in SynthCalls |-> FALSE]

\* synthesize_text up to its first suspension: the defaults, the cache
\* filename, and the test `use_cache and os.path.exists(cache_filename)`.
\* On a file to look at the call awaits stat; otherwise it submits
\* _synthesize_text_sync to the executor.
SBegin(c, t, uc) ==
    /\ spc[c] = "idle"
    /\ c > 1 => spc[c - 1] # "idle"     \* calls are numbered as they begin
    /\ text' = [text EXCEPT ![c] = t]
    /\ use_cache' = [use_cache EXCEPT ![c] = uc]
    /\ spc' = [spc EXCEPT ![c] =
          IF ShouldCheckCache(uc, cache[CacheFilename(t)].exists) THEN "stat" ELSE "synth"]
    /\ UNCHANGED <<cache0, cache, audio_content, sresult, provider_calls, read_error, write_error>>
    /\ UNCHANGED <<genVars, keyVars, reqVars, accVars, tokVars, nlpVars>>

\* The same, for a caller that awaits each call before it makes the next.
SBeginAlone(c, t, uc) ==
    /\ NoneInFlight
    /\ SBegin(c, t, uc)

\* await aiofiles.os.stat(cache_filename) completes: it raises (the handler
\* prints and the call goes on to synthesize), or gives the size.
SStat(c, fails) ==
    /\ spc[c] = "stat"
    /\ IF fails
       THEN /\ read_error' = [read_error EXCEPT ![c] = TRUE]
            /\ spc' = [spc EXCEPT ![c] = "synth"]
       ELSE /\ spc' = [spc EXCEPT ![c] =
                  IF IsCacheHit(Len(cache[FileOf(c)].data)) THEN "read" ELSE "synth"]
            /\ UNCHANGED read_error
    /\ UNCHANGED <<cache0, cache, text, use_cache, audio_content, sresult, provider_calls, write_error>>
    /\ UNCHANGED <<genVars, keyVars, reqVars, accVars, tokVars, nlpVars>>

\* aiofiles.open(cache_filename, 'rb') and f.read() complete: the call
\* returns the bytes the file holds when it is read, or the handler prints
\* the error and the call goes on to synthesize.
SRead(c, fails) ==
    /\ spc[c] = "read"
    /\ IF fails
       THEN /\ read_error' = [read_error EXCEPT ![c] = TRUE]
            /\ spc' = [spc EXCEPT ![c] = "synth"]
            /\ UNCHANGED sresult
       ELSE /\ sresult' = [sresult EXCEPT ![c] = ReturnedAudio(cache[FileOf(c)].data)]
            /\ spc' = [spc EXCEPT ![c] = "done"]
            /\ UNCHANGED read_error
    /\ UNCHANGED <<cache0, cache, text, use_cache, audio_content, provider_calls, write_error>>
    /\ UNCHANGED <<genVars, keyVars, reqVars, accVars, tokVars, nlpVars>>

\* run_in_executor(_synthesize_text_sync) completes. An exception leaves
\* the call. Audio is returned at once without use_cache; with it the call
\* awaits aiofiles.open(cache_filename, 'wb').
SSynth(c, out) ==
    /\ spc[c] = "synth"
    /\ provider_calls' = [provider_calls EXCEPT ![c] = @ + 1]
    /\ IF ~out.ok
       THEN /\ sresult' = [sresult EXCEPT ![c] = RaisedError("GoogleAPICallError")]
            /\ spc' = [spc EXCEPT ![c] = "done"]
            /\ UNCHANGED audio_content
       ELSE /\ audio_content' = [audio_content EXCEPT ![c] = out.audio]
            /\ IF use_cache[c]
               THEN /\ spc' = [spc EXCEPT ![c] = "wopen"]
                    /\ UNCHANGED sresult
               ELSE /\ spc' = [spc EXCEPT ![c] = "done"]
                    /\ sresult' = [sresult EXCEPT ![c] = ReturnedAudio(out.audio)]
    /\ UNCHANGED <<cache0, cache, text, use_cache, read_error, write_error>>
    /\ UNCHANGED <<genVars, keyVars, reqVars, accVars, tokVars, nlpVars>>

\* aiofiles.open(cache_filename, 'wb') completes: the file is truncated, or
\* the open raises, the handler prints and the call returns audio_content.
SWOpen(c, fails) ==
    /\ spc[c] = "wopen"
    /\ IF fails
       THEN /\ write_error' = [write_error EXCEPT ![c] = TRUE]
            /\ sresult' = [sresult EXCEPT ![c] = OnWriteError(audio_content[c])]
            /\ spc' = [spc EXCEPT ![c] = "done"]
            /\ UNCHANGED cache
       ELSE /\ cache' = [cache EXCEPT ![FileOf(c)] = Truncate(@)]
            /\ spc' = [spc EXCEPT ![c] = "write"]
            /\ UNCHANGED <<write_error, sresult>>
    /\ UNCHANGED <<cache0, text, use_cache, audio_content, provider_calls, read_error>>
    /\ UNCHANGED <<genVars, keyVars, reqVars, accVars, tokVars, nlpVars>>

\* f.write(audio_content) and the close of the file complete: all of
\* audio_content reaches the file, or the write raises having put some
\* prefix of it there; either way the call returns audio_content.
SWrite(c, written, fails) ==
    /\ spc[c] = "write"
    /\ written \in Prefixes(audio_content[c])
    /\ ~fails => written = audio_content[c]
    /\ cache' = [cache EXCEPT ![FileOf(c)] = Overlay(@, written)]
    /\ IF fails
       THEN /\ write_error' = [write_error EXCEPT ![c] = TRUE]
            /\ sresult' = [sresult EXCEPT ![c] = OnWriteError(audio_content[c])]
       ELSE /\ sresult' = [sresult EXCEPT ![c] = ReturnedAudio(audio_content[c])]
            /\ UNCHANGED write_error
    /\ spc' = [spc EXCEPT ![c] = "done"]
    /\ UNCHANGED <<cache0, text, use_cache, audio_content, provider_calls, read_error>>
    /\ UNCHANGED <<genVars, keyVars, reqVars, accVars, tokVars, nlpVars>>

SynthProgress(c) ==
    \/ \E fails \in BOOLEAN : SStat(c, fails)
    \/ \E fails \in BOOLEAN : SRead(c, fails)
    \/ \E out \in ProviderOutcomes : SSynth(c, out)
    \/ \E fails \in BOOLEAN : SWOpen(c, fails)
    \/ \E written \in AudioPayloads, fails \in BOOLEAN : SWrite(c, written, fails)

SynthNext ==
    \E c \in SynthCalls :
        \/ \E t \in SynthTexts, uc \in BOOLEAN : SBegin(c, t, uc)
        \/ SynthProgress(c)

SynthNextAlone ==
    \E c \in SynthCalls :
        \/ \E t \in SynthTexts, uc \in BOOLEAN : SBeginAlone(c, t, uc)
        \/ SynthProgress(c)

(***************************************************************************)
(* _get_cache_filename applied to two requests                             *)
(***************************************************************************)

RECURSIVE FieldStrings(_)
FieldStrings(n) ==
    IF n = 0 THEN {""}
    ELSE FieldStrings(n - 1) \cup {str \o ch : str \in FieldStrings(n - 1), ch \in {"a", ":"}}

DefaultTail ==
    [speaking_rate |-> DefaultSpeakingRate, pitch |-> DefaultPitch, gender |-> DefaultGender,
     language_code |-> default_language_code, volume_gain_db |-> DefaultVolumeGainDb]

\* The arguments other than text and voice name: the defaults, or the
\* defaults with one argument changed (the values of the personas of
\* synthesize_interviewer_response among them).
Tails ==
    {DefaultTail,
     [DefaultTail EXCEPT !.speaking_rate = 95],
     [DefaultTail EXCEPT !.pitch = -100],
     [DefaultTail EXCEPT !.gender = "MALE"],
     [DefaultTail EXCEPT !.language_code = "en-GB"],
     [DefaultTail EXCEPT !.volume_gain_db = 150]}

\* A voice name is never empty: synthesize_text replaces an empty or missing
\* one by default_voice_name before it computes the filename.
KeyRequests ==
    {[text |-> t, voice_name |-> v, tail |-> tl] :
        t \in FieldStrings(MaxFieldLen), v \in FieldStrings(MaxFieldLen) \ {""}, tl \in Tails}

FilenameOf(r) ==
    _get_cache_filename(r.text, r.voice_name, r.tail.speaking_rate, r.tail.pitch,
                        r.tail.gender, r.tail.language_code, r.tail.volume_gain_db)

KeyInit ==
    /\ req1 \in KeyRequests
    /\ req2 \in KeyRequests
    /\ file1 = ""
    /\ file2 = ""

ComputeFilenames ==
    /\ file1 = ""
    /\ file1' = FilenameOf(req1)
    /\ file2' = FilenameOf(req2)
    /\ UNCHANGED <<req1, req2>>
    /\ UNCHANGED <<genVars, synthVars, reqVars, accVars, tokVars, nlpVars>>

KeyNext == ComputeFilenames

(***************************************************************************)
(* The cache filename of two synthesize_text calls                         *)
(***************************************************************************)

\* `x or default` kept as it is: None stays None.
OrDefault_Never(x, default) == x

\* `x or default` on an Optional[str]: None and "" give the default.
OrDefault(x, default) == IF x = NoValue \/ x = "" THEN default ELSE x

\* The arguments of a synthesize_text call; language_code and voice_name
\* may be None (left out), empty, the service default or another value.
SynthesizeArgs ==
    [text : SynthTexts \cup {"a"},
     language_code : {NoValue, "", default_language_code, "en-GB"},
     voice_name : {NoValue, "", default_voice_name, "en-GB-Neural2-B"},
     gender : {DefaultGender},
     speaking_rate : {DefaultSpeakingRate, 95},
     pitch : {DefaultPitch},
     volume_gain_db : {DefaultVolumeGainDb},
     use_cache : BOOLEAN]

\* cache_filename as synthesize_text computes it from its arguments.
CacheFilenameOfCall(a) ==
    LET language_code == OrDefault(a.language_code, default_language_code)
        voice_name == OrDefault(a.voice_name, default_voice_name)
    IN  _get_cache_filename(a.text, voice_name, a.speaking_rate, a.pitch, a.gender,
                            language_code, a.volume_gain_db)

KeyArgsInit ==
    /\ req1 \in SynthesizeArgs
    /\ req2 \in SynthesizeArgs
    /\ file1 = ""
    /\ file2 = ""

\* Two calls of synthesize_text reach the line after _get_cache_filename.
ComputeCallFilenames ==
    /\ file1 = ""
    /\ file1' = CacheFilenameOfCall(req1)
    /\ file2' = CacheFilenameOfCall(req2)
    /\ UNCHANGED <<req1, req2>>
    /\ UNCHANGED <<genVars, synthVars, reqVars, accVars, tokVars, nlpVars>>

KeyArgsNext == ComputeCallFilenames

(***************************************************************************)
(* Service accessors and constructors                                      *)
(***************************************************************************)

EnvNames == {"PERPLEXITY_API_KEY", "HUGGINGFACE_API_KEY", "COMPLETION_PROVIDER"}

\* None in a slot that holds a service object; the objects are numbered
\* from 1 in the order they are constructed.
NoInstance == 0

\* settings.<name>: AttributeError when the Settings class does not declare
\* the attribute, else the value of the environment variable, or None.
SettingsGet(name) ==
    IF ~declared THEN [raised |-> TRUE, value |-> NoValue]
    ELSE IF name \notin environ THEN [raised |-> FALSE, value |-> NoValue]
    ELSE [raised |-> FALSE,
          value |-> IF name = "COMPLETION_PROVIDER" THEN "perplexity" ELSE EnvValue(name)]

Constructed(class, key) ==
    [raised |-> FALSE, error |-> "", object |-> [class |-> class, api_key |-> key]]

Failed(error) ==
    [raised |-> TRUE, error |-> error, object |-> [class |-> "", api_key |-> NoValue]]

\* LLMService() : `api_key or settings.PERPLEXITY_API_KEY`; a missing key is
\* logged as a warning and the object is built with api_key = None.
LLMService_init ==
    LET key == SettingsGet("PERPLEXITY_API_KEY") IN
    IF key.raised THEN Failed("AttributeError") ELSE Constructed("LLMService", key.value)

\* PerplexityService() : the same, on its own settings object.
PerplexityService_init ==
    LET key == SettingsGet("PERPLEXITY_API_KEY") IN
    IF key.raised THEN Failed("AttributeError") ELSE Constructed("PerplexityService", key.value)

\* OpenAIService() : a constructor that returns an object or raises.
OpenAIService_init(ok) ==
    IF ok THEN Constructed("OpenAIService", NoValue) ELSE Failed("Exception")

\* VoiceSynthesisService(credentials_path=...) : _initialize_client returns
\* a client, or raises when the credentials cannot be loaded.
VoiceSynthesisService_init(ok) ==
    IF ok THEN Constructed("VoiceSynthesisService", NoValue)
    ELSE Failed("DefaultCredentialsError")

\* TextGenerationService(provider=p) : ValueError when <P>_API_KEY is not in
\* the environment.
TextGenerationService_init(p) ==
    IF EnvVar(p) \notin environ THEN Failed("ValueError")
    ELSE Constructed("TextGenerationService", EnvValue(EnvVar(p)))

\* An accessor that takes every slot for empty.
Stored_Never(slot) == FALSE

\* `if _llm_service is None`, `if _voice_synthesis_service is None`,
\* `if instance_key in _service_instances`, read as "the slot is filled".
Stored(slot) == slot # NoInstance

\* One call in acc_log: the function called, the slot it serves, the object
\* it returned (NoInstance when it raised) and the error it raised.
Entry(accessor, key, result, error) ==
    [accessor |-> accessor, key |-> key, result |-> result, error |-> error]

_completion_services == {"openai", "perplexity"}

InstanceKeys == {"completion_" \o name : name \in _completion_services}

\* provider arguments: None, the two registered names, and another name.
ProviderArgs == {NoValue, "openai", "perplexity", "azure"}

AccInit ==
    /\ environ \in SUBSET EnvNames
    /\ declared \in BOOLEAN
    /\ objects = <<>>
    /\ _llm_service = NoInstance
    /\ _voice_synthesis_service = NoInstance
    /\ _service_instances = [k \in InstanceKeys |-> NoInstance]
    /\ acc_log = <<>>
    /\ sent = {}

\* get_llm_service(): no suspension between the test and the assignment.
get_llm_service ==
    /\ Len(acc_log) < MaxAccessorCalls
    /\ IF Stored(_llm_service)
       THEN /\ acc_log' = Append(acc_log, Entry("get_llm_service", "_llm_service", _llm_service, ""))
            /\ UNCHANGED <<objects, _llm_service>>
       ELSE LET r == LLMService_init IN
            IF r.raised
            THEN /\ acc_log' = Append(acc_log, Entry("get_llm_service", "_llm_service", NoInstance, r.error))
                 /\ UNCHANGED <<objects, _llm_service>>
            ELSE /\ objects' = Append(objects, r.object)
                 /\ _llm_service' = Len(objects) + 1
                 /\ acc_log' = Append(acc_log, Entry("get_llm_service", "_llm_service", Len(objects) + 1, ""))
    /\ UNCHANGED <<environ, declared, _voice_synthesis_service, _service_instances, sent>>
    /\ UNCHANGED <<genVars, synthVars, keyVars, reqVars, tokVars, nlpVars>>

\* get_voice_synthesis_service(): a coroutine without an await, so it runs
\* in one piece.
get_voice_synthesis_service(ok) ==
    /\ Len(acc_log) < MaxAccessorCalls
    /\ IF Stored(_voice_synthesis_service)
       THEN /\ acc_log' = Append(acc_log, Entry("get_voice_synthesis_service", "_voice_synthesis_service",
                                               _voice_synthesis_service, ""))
            /\ UNCHANGED <<objects, _voice_synthesis_service>>
       ELSE LET r == VoiceSynthesisService_init(ok) IN
            IF r.raised
            THEN /\ acc_log' = Append(acc_log, Entry("get_voice_synthesis_service", "_voice_synthesis_service",
                                                    NoInstance, r.error))
                 /\ UNCHANGED <<objects, _voice_synthesis_service>>
            ELSE /\ objects' = Append(objects, r.object)
                 /\ _voice_synthesis_service' = Len(objects) + 1
                 /\ acc_log' = Append(acc_log, Entry("get_voice_synthesis_service", "_voice_synthesis_service",
                                                    Len(objects) + 1, ""))
    /\ UNCHANGED <<environ, declared, _llm_service, _service_instances, sent>>
    /\ UNCHANGED <<genVars, synthVars, keyVars, reqVars, tokVars, nlpVars>>

\* get_completion_service(provider): the name is resolved
\* (`provider or settings.COMPLETION_PROVIDER or "openai"`), an unregistered
\* name raises ValueError, a filled slot is returned, an empty one is
\* filled with a new object of the registered class.
get_completion_service(provider_arg, ok) ==
    /\ Len(acc_log) < MaxAccessorCalls
    /\ LET setting == IF provider_arg = NoValue THEN SettingsGet("COMPLETION_PROVIDER")
                      ELSE [raised |-> FALSE, value |-> provider_arg]
           name == IF setting.value = NoValue THEN "openai" ELSE setting.value
           instance_key == "completion_" \o name
       IN  IF setting.raised
           THEN /\ acc_log' = Append(acc_log, Entry("get_completion_service", "", NoInstance, "AttributeError"))
                /\ UNCHANGED <<objects, _service_instances>>
           ELSE IF name \notin _completion_services
           THEN /\ acc_log' = Append(acc_log, Entry("get_completion_service", "", NoInstance, "ValueError"))
                /\ UNCHANGED <<objects, _service_instances>>
           ELSE IF Stored(_service_instances[instance_key])
           THEN /\ acc_log' = Append(acc_log, Entry("get_completion_service", instance_key,
                                                   _service_instances[instance_key], ""))
                /\ UNCHANGED <<objects, _service_instances>>
           ELSE LET r == IF name = "perplexity" THEN PerplexityService_init
                         ELSE OpenAIService_init(ok) IN
                IF r.raised
                THEN /\ acc_log' = Append(acc_log, Entry("get_completion_service", instance_key,
                                                        NoInstance, r.error))
                     /\ UNCHANGED <<objects, _service_instances>>
                ELSE /\ objects' = Append(objects, r.object)
                     /\ _service_instances' = [_service_instances EXCEPT ![instance_key] = Len(objects) + 1]
                     /\ acc_log' = Append(acc_log, Entry("get_completion_service", instance_key,
                                                        Len(objects) + 1, ""))
    /\ UNCHANGED <<environ, declared, _llm_service, _voice_synthesis_service, sent>>
    /\ UNCHANGED <<genVars, synthVars, keyVars, reqVars, tokVars, nlpVars>>

\* TextGenerationService(provider=p), constructed by the caller: there is no
\* accessor and no slot for it.
NewTextGenerationService(p) ==
    /\ Len(acc_log) < MaxAccessorCalls
    /\ LET r == TextGenerationService_init(p) IN
       IF r.raised
       THEN /\ acc_log' = Append(acc_log, Entry("TextGenerationService", "", NoInstance, r.error))
            /\ UNCHANGED objects
       ELSE /\ objects' = Append(objects, r.object)
            /\ acc_log' = Append(acc_log, Entry("TextGenerationService", "", Len(objects) + 1, ""))
    /\ UNCHANGED <<environ, declared, _llm_service, _voice_synthesis_service, _service_instances, sent>>
    /\ UNCHANGED <<genVars, synthVars, keyVars, reqVars, tokVars, nlpVars>>

\* generate_chat_completion of the LLMService or PerplexityService object i
\* posts its request with the header f"Bearer {self.api_key}".
PostChatCompletion(i) ==
    /\ i \in DOMAIN objects
    /\ objects[i].class \in {"LLMService", "PerplexityService"}
    /\ LET request == [object |-> i, Authorization |-> "Bearer " \o objects[i].api_key] IN
       /\ request \notin sent
       /\ sent' = sent \cup {request}
    /\ UNCHANGED <<environ, declared, objects, _llm_service, _voice_synthesis_service,
                   _service_instances, acc_log>>
    /\ UNCHANGED <<genVars, synthVars, keyVars, reqVars, tokVars, nlpVars>>

AccessorNext ==
    \/ get_llm_service
    \/ \E ok \in BOOLEAN : get_voice_synthesis_service(ok)
    \/ \E provider_arg \in ProviderArgs, ok \in BOOLEAN : get_completion_service(provider_arg, ok)
    \/ \E p \in {"perplexity", "huggingface"} : NewTextGenerationService(p)
    \/ \E i \in 1..MaxAccessorCalls : PostChatCompletion(i)

(***************************************************************************)
(* count_tokens                                                            *)
(***************************************************************************)

TokenServices == {"LLMService", "PerplexityService"}

\* The texts "A" * n.
Texts == {[i \in 1..n |-> "A"] : n \in 0..MaxTextLen}

\* An estimator that rounds len(text) / 4 up and returns at least 1.
LLMService_count_tokens_RoundUp(t) ==
    IF (Len(t) + 3) \div 4 < 1 THEN 1 ELSE (Len(t) + 3) \div 4

\* An estimator whose count is kept in four bits.
LLMService_count_tokens_FourBits(t) == (Len(t) \div 4 + 1) % 16

\* LLMService.count_tokens: `len(text) // 4 + 1`
LLMService_count_tokens(t) == Len(t) \div 4 + 1

\* An estimator without the `+ 1`.
PerplexityService_count_tokens_NoPlusOne(t) == Len(t) \div 4

\* PerplexityService.count_tokens: `len(text) // 4 + 1`
PerplexityService_count_tokens(t) == Len(t) \div 4 + 1

TokInit ==
    /\ tok_service \in TokenServices
    /\ tok_text \in Texts
    /\ tok_count = 0

\* await service.count_tokens(text)
count_tokens ==
    /\ tok_count = 0
    /\ tok_count' = IF tok_service = "LLMService" THEN LLMService_count_tokens(tok_text)
                    ELSE PerplexityService_count_tokens(tok_text)
    /\ UNCHANGED <<tok_service, tok_text>>
    /\ UNCHANGED <<genVars, synthVars, keyVars, reqVars, accVars, nlpVars>>

TokNext == count_tokens

(***************************************************************************)
(* POST /api/nlp/analyze                                                   *)
(***************************************************************************)

\* The analysis types the handler has a branch for; the comparison is
\* case-sensitive.
SupportedAnalysisTypes == {"sentiment", "entity", "intent", "summarization"}

AnalysisTypes == SupportedAnalysisTypes \cup {"keywords", "Sentiment"}

\* The request bodies that pass validation: text and analysis_type are
\* strings, model is optional.
NLPAnalysisRequests ==
    [text : {"", "hi"}, analysis_type : AnalysisTypes, model : {NoValue, "m"}]

NoResponse == [status_code |-> 0, detail |-> "", analysis |-> ""]

\* The 200 response; `analysis` has one key.
NLPAnalysisResponse(key) == [status_code |-> 200, detail |-> "", analysis |-> key]

\* http_exception_handler turns an HTTPException into a response with its
\* status code and detail.
HTTPException(status_code, detail) ==
    [status_code |-> status_code, detail |-> detail, analysis |-> ""]

\* str(e) of an HTTPException: "<status>: <detail>" or the empty string,
\* as the installed Starlette defines it.
HTTPExceptionStrs(exc) == {ToString(exc.status_code) \o ": " \o exc.detail, ""}

\* The exception of the else branch.
UnsupportedAnalysisType(analysis_type) ==
    HTTPException(400, "Unsupported analysis type: " \o analysis_type)

\* The key of `analysis` for a supported type.
AnalysisKey(analysis_type) ==
    IF analysis_type = "sentiment" THEN "sentiment"
    ELSE IF analysis_type = "entity" THEN "entities"
    ELSE IF analysis_type = "intent" THEN "intent"
    ELSE "summary"

\* `except Exception as e`: whatever was raised in the try block becomes a
\* 500 with str(e) in its detail.
ExceptException(str_e) == HTTPException(500, "Error analyzing text: " \o str_e)

NlpInit ==
    /\ nlp_request = [text |-> "", analysis_type |-> "sentiment", model |-> NoValue]
    /\ nlp_pc = "idle"
    /\ nlp_analyzer = "none"
    /\ nlp_response = NoResponse
    /\ nlp_handled = 0

\* A validated request with a bearer token reaches the route.
Receive(request) ==
    /\ nlp_pc \in {"idle", "answered"}
    /\ nlp_handled < MaxRequests
    /\ nlp_request' = request
    /\ nlp_pc' = "received"
    /\ nlp_analyzer' = "none"
    /\ nlp_response' = NoResponse
    /\ UNCHANGED nlp_handled
    /\ UNCHANGED <<genVars, synthVars, keyVars, reqVars, accVars, tokVars>>

\* analyze_text, which has no suspension point: TextAnalyzer(...) loads the
\* models and may raise, analyze(...) may raise, then the branch on
\* analysis_type returns or raises HTTPException(400), all inside the one
\* try block whose handler answers every exception with a 500.
analyze_text(init_ok, analyze_ok, str_e) ==
    /\ nlp_pc = "received"
    /\ LET analysis_type == nlp_request.analysis_type
       IN  /\ str_e \in HTTPExceptionStrs(UnsupportedAnalysisType(analysis_type))
           /\ nlp_analyzer' = IF ~init_ok THEN "init_failed"
                              ELSE IF ~analyze_ok THEN "analyze_failed"
                              ELSE "ok"
           /\ nlp_response' =
                  IF ~init_ok THEN ExceptException("OSError")
                  ELSE IF ~analyze_ok THEN ExceptException("RuntimeError")
                  ELSE IF analysis_type \in SupportedAnalysisTypes
                       THEN NLPAnalysisResponse(AnalysisKey(analysis_type))
                       ELSE ExceptException(str_e)
    /\ nlp_pc' = "answered"
    /\ nlp_handled' = nlp_handled + 1
    /\ UNCHANGED nlp_request
    /\ UNCHANGED <<genVars, synthVars, keyVars, reqVars, accVars, tokVars>>

\* str(e) of the exceptions the else branch can raise.
UnsupportedStrs ==
    UNION {HTTPExceptionStrs(UnsupportedAnalysisType(t)) : t \in AnalysisTypes}

NlpNext ==
    \/ \E request \in NLPAnalysisRequests : Receive(request)
    \/ \E init_ok \in BOOLEAN, analyze_ok \in BOOLEAN, str_e \in UnsupportedStrs :
           analyze_text(init_ok, analyze_ok, str_e)

(***************************************************************************)
(* Specifications: each runs one part of the program and holds the other   *)
(* parts in one fixed state.                                               *)
(***************************************************************************)

GenIdle ==
    /\ configured = "perplexity"
    /\ provider = configured
    /\ pc = [c \in Calls |-> "idle"]
    /\ api = [c \in Calls |-> "none"]
    /\ old_provider = [c \in Calls |-> "none"]
    /\ attempts = [c \in Calls |-> <<>>]
    /\ e = [c \in Calls |-> NoError]
    /\ outcome = [c \in Calls |-> NoOutcome]

SynthIdle ==
    /\ cache0 = [f \in CacheFilenames |-> Absent]
    /\ cache = cache0
    /\ spc = [c \in SynthCalls |-> "idle"]
    /\ text = [c \in SynthCalls |-> ""]
    /\ use_cache = [c \in SynthCalls |-> FALSE]
    /\ audio_content = [c \in SynthCalls |-> <<>>]
    /\ sresult = [c \in SynthCalls |-> Pending]
    /\ provider_calls = [c \in SynthCalls |-> 0]
    /\ read_error = [c \in SynthCalls |-> FALSE]
    /\ write_error = [c \in SynthCalls |-> FALSE]

KeyIdle ==
    /\ req1 = [text |-> "", voice_name |-> default_voice_name, tail |-> DefaultTail]
    /\ req2 = req1
    /\ file1 = ""
    /\ file2 = ""

ReqIdle ==
    /\ config = [api_url |-> NoValue, default_model |-> DefaultModelOf(configured)]
    /\ prompt = "ping"
    /\ messages = <<[role |-> "user", content |-> "ping"]>>
    /\ kwargs = NoKwargs

AccIdle ==
    /\ environ = {}
    /\ declared = TRUE
    /\ objects = <<>>
    /\ _llm_service = NoInstance
    /\ _voice_synthesis_service = NoInstance
    /\ _service_instances = [k \in InstanceKeys |-> NoInstance]
    /\ acc_log = <<>>
    /\ sent = {}

TokIdle ==
    /\ tok_service = "LLMService"
    /\ tok_text = <<>>
    /\ tok_count = 0

NlpIdle == NlpInit

\* Concurrent generate calls on one TextGenerationService.
InitGen == GenInit /\ SynthIdle /\ KeyIdle /\ ReqIdle /\ AccIdle /\ TokIdle /\ NlpIdle

SpecGen == InitGen /\ [][GenNext]_vars

\* Concurrent generate calls on a service whose providers reject every
\* request.
SpecAllRejected == InitGen /\ [][AllRejectedNext]_vars

\* One generate call, with its arguments and the requests it posts.
InitOneCall == GenInit /\ ReqInit /\ SynthIdle /\ KeyIdle /\ AccIdle /\ TokIdle /\ NlpIdle

SpecOneCall == InitOneCall /\ [][OneCallNext]_vars

\* Concurrent synthesize_text calls on one VoiceSynthesisService.
InitSynth == SynthInit /\ GenIdle /\ KeyIdle /\ ReqIdle /\ AccIdle /\ TokIdle /\ NlpIdle

SpecSynth == InitSynth /\ [][SynthNext]_vars

\* synthesize_text calls made one after the other.
SpecSynthAlone == InitSynth /\ [][SynthNextAlone]_vars

\* _get_cache_filename on every pair of requests.
InitKey == KeyInit /\ GenIdle /\ SynthIdle /\ ReqIdle /\ AccIdle /\ TokIdle /\ NlpIdle

SpecKey == InitKey /\ [][KeyNext]_vars

InitKeyArgs == KeyArgsInit /\ GenIdle /\ SynthIdle /\ ReqIdle /\ AccIdle /\ TokIdle /\ NlpIdle

SpecKeyArgs == InitKeyArgs /\ [][KeyArgsNext]_vars

\* Calls to the accessors and constructors in one process.
InitAccessor == AccInit /\ GenIdle /\ SynthIdle /\ KeyIdle /\ ReqIdle /\ TokIdle /\ NlpIdle

SpecAccessor == InitAccessor /\ [][AccessorNext]_vars

\* count_tokens on every text.
InitTokens == TokInit /\ GenIdle /\ SynthIdle /\ KeyIdle /\ ReqIdle /\ AccIdle /\ NlpIdle

SpecTokens == InitTokens /\ [][TokNext]_vars

InitNlp == NlpInit /\ GenIdle /\ SynthIdle /\ KeyIdle /\ ReqIdle /\ AccIdle /\ TokIdle

SpecNlp == InitNlp /\ [][NlpNext]_vars

(***************************************************************************)
(* Claims about TextGenerationService                                      *)
(***************************************************************************)

OtherProvider(p) == IF p = "perplexity" THEN "huggingface" ELSE "perplexity"

\* The first attempt of call c has failed: the handler has run.
FirstFailed(c) ==
    /\ Len(attempts[c]) >= 1
    /\ \/ pc[c] = "fallback"
       \/ pc[c] = "done" /\ ~(Len(attempts[c]) = 1 /\ outcome[c].state = "returned")

\* C1: whenever the attempt on the configured provider fails, the other
\* provider is attempted exactly once, only after that failure, and a
\* successful fallback returns the other provider's text.
C1_FallbackToOtherProvider ==
    \A c \in Calls :
        /\ pc[c] = "first" => Len(attempts[c]) = 1
        /\ (FirstFailed(c) /\ attempts[c][1] = configured) =>
              /\ attempts[c] = <<configured, OtherProvider(configured)>>
              /\ (pc[c] = "done" /\ outcome[c].state = "returned") =>
                    outcome[c].by = OtherProvider(configured)

C3_NoProviderTwice ==
    \A c \in Calls :
        /\ Len(attempts[c]) <= 2
        /\ Len(attempts[c]) = 2 => attempts[c][1] # attempts[c][2]

\* C4: the first attempt of every call goes to the provider the service was
\* constructed with, whatever stage the other calls are in.
C4_FirstAttemptOnConfigured ==
    \A c \in Calls : Len(attempts[c]) >= 1 => attempts[c][1] = configured

(***************************************************************************)
(* Claims about VoiceSynthesisService.synthesize_text                      *)
(***************************************************************************)

\* Call c returned bytes it read from the cache file.
Hit(c) == spc[c] = "done" /\ sresult[c].state = "returned" /\ provider_calls[c] = 0

\* Call c has received audio from the provider.
Synthesized(c) ==
    /\ spc[c] \in {"wopen", "write", "done"}
    /\ provider_calls[c] = 1
    /\ sresult[c].state # "raised"

\* C5: a call with use_cache whose cache file exists, has nonzero size and
\* is readable returns exactly the bytes the file holds and never invokes
\* the provider: an existing file sends the call to stat, a nonzero size to
\* the read, and the read's bytes are what the call returns.
C5_CacheHitShortCircuit ==
    [][\A c \in SynthCalls :
        /\ (spc[c] = "idle" /\ spc'[c] # "idle" /\ use_cache'[c]
                /\ cache[CacheFilename(text'[c])].exists)
              => spc'[c] = "stat"
        /\ (spc[c] = "stat" /\ spc'[c] # "stat" /\ ~read_error'[c]
                /\ Len(cache[FileOf(c)].data) > 0)
              => spc'[c] = "read"
        /\ (spc[c] = "read" /\ spc'[c] # "read" /\ ~read_error'[c])
              => /\ spc'[c] = "done"
                 /\ sresult'[c] = ReturnedAudio(cache[FileOf(c)].data)
                 /\ provider_calls'[c] = 0
      ]_vars

\* A call that returned non-empty bytes from the cache file.
C5_Witness ==
    \E c \in SynthCalls :
        Hit(c) /\ use_cache[c] /\ ~read_error[c] /\ sresult[c].data # <<>>

\* c2 is a later call than c1 with the same parameters, both with use_cache.
LaterSameRequest(c1, c2) ==
    /\ c1 < c2
    /\ spc[c1] = "done" /\ spc[c2] = "done"
    /\ use_cache[c1] /\ use_cache[c2]
    /\ text[c1] = text[c2]

NextSameRequest(c1, c2) ==
    /\ LaterSameRequest(c1, c2)
    /\ ~\E c3 \in SynthCalls :
          c1 < c3 /\ c3 < c2 /\ use_cache[c3] /\ text[c3] = text[c1]

C7_BadEntryIsMiss ==
    /\ [][\A c \in SynthCalls :
            /\ (spc[c] = "stat" /\ spc'[c] # "stat"
                    /\ (read_error'[c] \/ cache[FileOf(c)].data = <<>>))
                  => spc'[c] = "synth" /\ sresult'[c] = Pending
            /\ (spc[c] = "read" /\ spc'[c] # "read" /\ read_error'[c])
                  => spc'[c] = "synth" /\ sresult'[c] = Pending
         ]_vars
    /\ [](\A c \in SynthCalls :
            /\ sresult[c].state = "raised" => sresult[c] = RaisedError("GoogleAPICallError")
            /\ (spc[c] = "done" /\ read_error[c]) => provider_calls[c] = 1)

\* A call whose cache read failed and that returned the provider's audio.
C7_Witness ==
    \E c \in SynthCalls :
        /\ spc[c] = "done" /\ read_error[c]
        /\ provider_calls[c] = 1 /\ sresult[c].state = "returned"

\* C8: when the cache write fails after the provider has answered, the call
\* still returns the synthesized audio and raises nothing.
C8_WriteFailureStillReturns ==
    \A c \in SynthCalls :
        (spc[c] = "done" /\ write_error[c]) =>
            /\ sresult[c] = ReturnedAudio(audio_content[c])
            /\ provider_calls[c] = 1

\* A call whose cache write failed and that returned non-empty audio.
C8_Witness ==
    \E c \in SynthCalls :
        /\ spc[c] = "done" /\ write_error[c]
        /\ sresult[c].state = "returned" /\ sresult[c].data # <<>>

\* The complete payloads of the key of file f: what the file held when the
\* service was constructed, and what the provider has returned to the calls.
Produced(f) ==
    (IF cache0[f].exists THEN {cache0[f].data} ELSE {})
    \cup {audio_content[d] : d \in {x \in SynthCalls : Synthesized(x) /\ FileOf(x) = f}}

\* C9: a call that takes the cache-hit path never returns bytes other than
\* a complete payload of its key, even while another call is writing the
\* file. Stated for the runs in which no cache write fails, so that only the
\* interleaving of a reader with a writer is in question.
C9_HitReturnsCompletePayload ==
    (\A d \in SynthCalls : ~write_error[d]) =>
        \A c \in SynthCalls : Hit(c) => sresult[c].data \in Produced(FileOf(c))

(***************************************************************************)
(* Claims about _get_cache_filename                                        *)
(***************************************************************************)

\* C10: two requests that differ in at least one of the seven fields get
\* different cache files, also when a field holds the ":" separator.
C10_DistinctRequestsDistinctFiles ==
    (file1 # "" /\ req1 # req2) => file1 # file2

(***************************************************************************)
(* Claims about the accessors                                              *)
(***************************************************************************)

\* The classes whose objects are built by an accessor only.
SingletonClasses == {"LLMService", "VoiceSynthesisService", "PerplexityService", "OpenAIService"}

\* C11: after any sequence of calls to the accessors, all the calls that
\* serve one slot (get_llm_service, get_voice_synthesis_service,
\* get_completion_service for one provider name) and return have returned
\* the same object, and at most one object of the slot's class was built.
C11_SingletonPerAccessor ==
    /\ \A i, j \in DOMAIN acc_log :
          (/\ acc_log[i].key # ""
           /\ acc_log[i].key = acc_log[j].key
           /\ acc_log[i].result # NoInstance
           /\ acc_log[j].result # NoInstance)
          => acc_log[i].result = acc_log[j].result
    /\ \A class \in SingletonClasses :
          Cardinality({k \in DOMAIN objects : objects[k].class = class}) <= 1

\* An accessor whose constructor raised at the first call, built the object
\* at the second and returned that object again at the third.
C11_Witness ==
    \E i, j, k \in DOMAIN acc_log :
        /\ i < j /\ j < k
        /\ acc_log[i].key # "" /\ acc_log[j].key = acc_log[i].key /\ acc_log[k].key = acc_log[i].key
        /\ acc_log[i].error # ""
        /\ acc_log[j].result # NoInstance
        /\ acc_log[k].result = acc_log[j].result

(***************************************************************************)
(* Claims about the requests and the responses of TextGenerationService    *)
(***************************************************************************)

UserMessage(p) == <<[role |-> "user", content |-> p]>>

\* C12: on either adapter the payload posted for generate_completion(prompt)
\* is the payload posted for generate_chat_completion of the single user
\* message with that prompt, the keyword arguments being the same.
C12_SamePayloadBothModes ==
    \A i \in 1..Len(attempts[1]) :
        /\ api[1] = "completion" =>
              Posted(1)[i].json =
                  Request(attempts[1][i], "chat", prompt, UserMessage(prompt), kwargs).json
        /\ (api[1] = "chat" /\ messages = UserMessage(prompt)) =>
              Posted(1)[i].json =
                  Request(attempts[1][i], "completion", prompt, messages, kwargs).json

\* C13: a 200 response without the generated-text field is never turned
\* into a successful result: no call returns the empty string that stands
\* in for the missing field.
C13_MissingFieldIsFailure ==
    \A c \in Calls : outcome[c].state = "returned" => outcome[c].text # ""

\* The endpoint of provider p serving p's own default model.
OwnEndpoint(p) ==
    IF p = "perplexity" THEN PerplexityUrl ELSE HuggingfaceUrl \o DefaultModelOf(p)

\* C14: every request of a call, the fallback's included, goes to the
\* endpoint of the provider it is meant for and carries that provider's own
\* API key and model, never the other provider's.
C14_OwnCredentialsOnly ==
    \A i \in 1..Len(attempts[1]) :
        LET target == attempts[1][i]
            request == Posted(1)[i]
        IN  /\ request.url = OwnEndpoint(target)
            /\ request.Authorization = "Bearer " \o EnvValue(EnvVar(target))
            /\ target = "perplexity" => request.json.model = DefaultModelOf(target)

\* C15: generate_chat_completion with an empty message list posts nothing
\* and raises at once an error that is not a provider's.
C15_EmptyMessagesRejected ==
    (api[1] = "chat" /\ messages = <<>>) =>
        /\ attempts[1] = <<>>
        /\ outcome[1].state = "raised"
        /\ outcome[1].by = "none"

ApiError(p) == IF p = "perplexity" THEN "Perplexity API error" ELSE "Hugging Face API error"

Supported == configured \in {"perplexity", "huggingface"}

\* No other call has begun.
RanAlone(c) == \A d \in Calls \ {c} : pc[d] = "idle"

C17_HealthyConfiguredOneRequest ==
    \A c \in Calls :
        (/\ pc[c] = "done"
         /\ outcome[c].state = "returned"
         /\ outcome[c].by = configured
         /\ outcome[c].text # "") =>
            attempts[c] = <<configured>>

CeilQuarter(n) == (n + 3) \div 4

\* C19 as claimed: count_tokens(text) is len(text)/4 rounded up, and at
\* least 1: 1 for 4 characters, 25 for 100.
C19_RoundedUpMinOne ==
    tok_count # 0 =>
        tok_count = (IF CeilQuarter(Len(tok_text)) < 1 THEN 1 ELSE CeilQuarter(Len(tok_text)))

\* C19 as amended: count_tokens(text) is len(text)/4 rounded up when
\* len(text) is not a multiple of 4 and one more than len(text)/4 when it
\* is: 1 for the empty text, 2 for 4 characters, 26 for 100.
C19_RoundedUpOrNextOnMultiples ==
    tok_count # 0 =>
        tok_count = CeilQuarter(Len(tok_text)) + (IF (Len(tok_text) % 4) = 0 THEN 1 ELSE 0)

\* LLMService.count_tokens of a text of 4 characters returned 2.
C19_Witness ==
    tok_service = "LLMService" /\ Len(tok_text) = 4 /\ tok_count = 2

\* C20: count_tokens(text) is floor(len(text)/4) + 1: 1 for the empty
\* text, 4 for 13 characters, 26 for 100.
C20_FloorPlusOne ==
    tok_count # 0 =>
        /\ tok_count = ((Len(tok_text) - (Len(tok_text) % 4)) \div 4) + 1
        /\ Len(tok_text) = 0 => tok_count = 1
        /\ Len(tok_text) = 13 => tok_count = 4
        /\ Len(tok_text) = 100 => tok_count = 26

\* PerplexityService.count_tokens of a text of 13 characters returned 4.
C20_Witness ==
    tok_service = "PerplexityService" /\ Len(tok_text) = 13 /\ tok_count = 4

\* count_tokens of the service of this state, as a function of the text.
CountTokensOf(service, t) ==
    IF service = "LLMService" THEN LLMService_count_tokens(t)
    ELSE PerplexityService_count_tokens(t)

\* C21: the count of a text is at least the count of every shorter text,
\* and the count of the empty text is exactly 1.
C21_MonotoneInLength ==
    tok_count # 0 =>
        /\ \A s1 \in Texts :
               Len(tok_text) > Len(s1) => tok_count >= CountTokensOf(tok_service, s1)
        /\ Len(tok_text) = 0 => tok_count = 1

\* LLMService.count_tokens of a text of 64 characters returned 17, and a
\* shorter text has a smaller count.
C21_Witness ==
    /\ tok_service = "LLMService" /\ Len(tok_text) = 64 /\ tok_count = 17
    /\ \E s1 \in Texts : Len(s1) < 64 /\ CountTokensOf(tok_service, s1) < tok_count

(***************************************************************************)
(* Claims about synthesize_text on a miss, without the cache, on failure   *)
(***************************************************************************)

\* The bytes `data` begin with the bytes b.
StartsWith(data, b) == Len(data) >= Len(b) /\ SubSeq(data, 1, Len(b)) = b

\* In this step call c, made with use_cache, returns audio that came from
\* the provider and not from the cache file.
MissReturns(c) ==
    /\ spc[c] # "done" /\ spc'[c] = "done"
    /\ use_cache[c]
    /\ sresult'[c].state = "returned"
    /\ provider_calls'[c] > 0

\* C22 as claimed: a call with use_cache that misses the cache invokes the
\* provider exactly once, and when the provider succeeds the payload is in
\* the cache file of the call's key when the call returns it.
C22_WrittenBeforeReturn ==
    [][\A c \in SynthCalls :
          MissReturns(c) =>
              /\ provider_calls'[c] = 1
              /\ cache'[FileOf(c)].exists
              /\ StartsWith(cache'[FileOf(c)].data, sresult'[c].data)
      ]_vars

\* C22 as amended: a call with use_cache that misses the cache invokes the
\* provider exactly once, and when the provider succeeds it returns the
\* payload only after the write to the cache file of its key: the payload
\* has been written from the start of that file unless the open or the
\* write raised, which the call prints and survives.
C22_WriteAttemptedBeforeReturn ==
    [][\A c \in SynthCalls :
          MissReturns(c) =>
              /\ provider_calls'[c] = 1
              /\ spc[c] \in {"wopen", "write"}
              /\ sresult'[c] = ReturnedAudio(audio_content[c])
              /\ \/ write_error'[c]
                 \/ /\ spc[c] = "write"
                    /\ cache'[FileOf(c)].exists
                    /\ StartsWith(cache'[FileOf(c)].data, sresult'[c].data)
      ]_vars

\* A call that found no cache file, got non-empty audio from the provider,
\* wrote it and returned it.
C22_Witness ==
    \E c \in SynthCalls :
        /\ spc[c] = "done" /\ use_cache[c] /\ provider_calls[c] = 1
        /\ ~cache0[FileOf(c)].exists
        /\ ~write_error[c] /\ ~read_error[c]
        /\ sresult[c].state = "returned" /\ sresult[c].data # <<>>
        /\ cache[FileOf(c)] = File(sresult[c].data)

(***************************************************************************)
(* Claims about the prompt of _generate_huggingface_chat                   *)
(***************************************************************************)

RoleMarkers == {"<|system|>", "<|user|>", "<|assistant|>"}

KnownRoles == {"system", "user", "assistant"}

\* The marker of a role, whatever the case it is written in.
RoleMarker(role) == "<|" \o Lower(role) \o "|>"

\* The turns of the messages from the i-th on, message k under markers[k].
RECURSIVE TurnsFrom(_, _, _)
TurnsFrom(markers, msgs, i) ==
    IF i > Len(msgs) THEN ""
    ELSE markers[i] \o "\n" \o msgs[i].content \o "\n" \o TurnsFrom(markers, msgs, i + 1)

\* The prompt of the i-th request of call 1, posted by _generate_huggingface_chat.
ChatPrompt(i) == Posted(1)[i].json.inputs

HuggingfaceChatAttempts ==
    {i \in 1..Len(attempts[1]) : api[1] = "chat" /\ attempts[1][i] = "huggingface"}

\* C23 as claimed: the prompt holds one turn for every message, in the
\* order of the messages, each a role marker followed by the content, the
\* marker being the message's own when its role is one of the three; then
\* the open assistant marker. Nothing else decides the prompt.
C23_EveryMessageInPrompt ==
    \A i \in HuggingfaceChatAttempts :
        \E markers \in [1..Len(messages) -> RoleMarkers] :
            /\ \A k \in 1..Len(messages) :
                   Lower(messages[k].role) \in KnownRoles =>
                       markers[k] = RoleMarker(messages[k].role)
            /\ ChatPrompt(i) = TurnsFrom(markers, messages, 1) \o "<|assistant|>\n"

\* The messages whose role is system, user or assistant in any case.
KnownMessages == SelectSeq(messages, LAMBDA m : Lower(m.role) \in KnownRoles)

\* C23 as amended: the prompt holds one turn for every message whose role
\* is system, user or assistant, in the order of the messages, each its
\* role marker followed by its content, then the open assistant marker; a
\* message of any other role is left out. The messages alone decide it.
C23_KnownRolesInPrompt ==
    \A i \in HuggingfaceChatAttempts :
        ChatPrompt(i) =
            TurnsFrom([k \in 1..Len(KnownMessages) |-> RoleMarker(KnownMessages[k].role)],
                      KnownMessages, 1)
            \o "<|assistant|>\n"

\* A system and a user message were flattened into two turns and the open
\* assistant marker.
C23_Witness ==
    \E i \in HuggingfaceChatAttempts :
        /\ Len(messages) = 2
        /\ messages[1].role = "system" /\ messages[2].role = "User"
        /\ ChatPrompt(i) = "<|system|>\nping\n<|user|>\nping\n<|assistant|>\n"

(***************************************************************************)
(* Claims about the cache files                                            *)
(***************************************************************************)

\* C24: once a cache file exists with nonzero size, no step of any call
\* changes it: it is neither truncated, rewritten nor deleted, whatever the
\* order of the calls and whichever cache reads fail.
C24_NonEmptyFileNeverChanges ==
    [][\A f \in CacheFilenames :
          (cache[f].exists /\ Len(cache[f].data) > 0) => cache'[f] = cache[f]
      ]_vars

(***************************************************************************)
(* Claims about calls made with the fallback switched off                  *)
(***************************************************************************)

\* The call was made with use_fallback=False.
FallbackDisabled == "use_fallback" \in DOMAIN kwargs /\ kwargs["use_fallback"] = 0

\* C25: a call made with the fallback disabled on a service whose provider
\* fails ends after exactly one attempt, on the configured provider, with
\* that provider's error; no request goes to another provider.
C25_NoFallbackWhenDisabled ==
    (FallbackDisabled /\ Supported) =>
        /\ Len(attempts[1]) <= 1
        /\ \A i \in 1..Len(attempts[1]) : attempts[1][i] = configured
        /\ (pc[1] = "done" /\ outcome[1].state = "raised") =>
               (outcome[1].by = configured /\ outcome[1].attempt = 1)

(***************************************************************************)
(* Claims about the cache filename of a call                               *)
(***************************************************************************)

\* x and y are the same argument, or one is left out and the other is the
\* service default d.
SameOrDefault(x, y, d) ==
    x = y \/ (x = NoValue /\ y = d) \/ (y = NoValue /\ x = d)

\* The two calls ask for the same audio: the same text, gender, speaking
\* rate, pitch and volume gain, and language code and voice name the same
\* once a left-out one is read as the service default.
SameEffectiveFields ==
    /\ req1.text = req2.text
    /\ req1.gender = req2.gender
    /\ req1.speaking_rate = req2.speaking_rate
    /\ req1.pitch = req2.pitch
    /\ req1.volume_gain_db = req2.volume_gain_db
    /\ SameOrDefault(req1.language_code, req2.language_code, default_language_code)
    /\ SameOrDefault(req1.voice_name, req2.voice_name, default_voice_name)

\* C26: two calls with the same effective fields get the same cache file,
\* whatever their use_cache, and a left-out language code or voice name
\* gives the file of the explicit service default.
C26_SameFieldsSameFile ==
    (file1 # "" /\ SameEffectiveFields) => file1 = file2

\* A call that left out language code and voice name and a call that named
\* the service defaults got the same file.
C26_Witness ==
    /\ file1 # "" /\ file1 = file2
    /\ req1.language_code = NoValue /\ req1.voice_name = NoValue
    /\ req2.language_code = default_language_code /\ req2.voice_name = default_voice_name
    /\ req1.use_cache # req2.use_cache
    /\ SameEffectiveFields

(***************************************************************************)
(* Claims about self.provider                                              *)
(***************************************************************************)

\* C27: when no call is in flight, self.provider is the provider the
\* service was constructed with, whatever the calls did and however they
\* interleaved.
C27_ProviderRestored ==
    (\A c \in Calls : pc[c] \in {"idle", "done"}) => provider = configured

(***************************************************************************)
(* Claims about calls made with use_cache=False                            *)
(***************************************************************************)

\* C28: a call made with use_cache=False never stats, reads, opens or
\* writes a cache file: each of its steps leaves every cache file as it is,
\* also when a valid entry for its key exists, and it ends having invoked
\* the provider exactly once.
C28_NoCacheAccessWithoutUseCache ==
    [][\A c \in SynthCalls :
          (spc'[c] # spc[c] /\ ~use_cache'[c]) =>
              /\ cache' = cache
              /\ spc'[c] \in {"synth", "done"}
              /\ ~read_error'[c] /\ ~write_error'[c]
              /\ spc'[c] = "done" => provider_calls'[c] = 1
      ]_vars

\* A call with use_cache=False returned the provider's audio while the
\* cache file of its key held other, non-empty audio, which is still there.
C28_Witness ==
    \E c \in SynthCalls :
        /\ spc[c] = "done" /\ ~use_cache[c]
        /\ provider_calls[c] = 1 /\ sresult[c].state = "returned"
        /\ cache0[FileOf(c)].exists /\ cache0[FileOf(c)].data # <<>>
        /\ cache = cache0
        /\ sresult[c].data # cache[FileOf(c)].data

(***************************************************************************)
(* Claims about a failing provider call                                    *)
(***************************************************************************)

\* C29: when _synthesize_text_sync raises, the exception leaves
\* synthesize_text at once and the call has not touched the cache: only a
\* call that holds the provider's audio ever changes a cache file, such a
\* call never raises, and the raising step itself changes no file.
C29_ProviderFailurePropagates ==
    [][\A c \in SynthCalls :
          /\ (spc[c] = "synth" /\ use_cache[c] /\ spc'[c] = "done")
                => sresult'[c].state = "raised"
          /\ (sresult[c].state # "raised" /\ sresult'[c].state = "raised")
                => /\ spc[c] = "synth" /\ spc'[c] = "done"
                   /\ sresult'[c].data = <<"GoogleAPICallError">>
                   /\ provider_calls'[c] = 1
                   /\ cache' = cache
          /\ (spc'[c] # spc[c] /\ cache' # cache)
                => spc[c] \in {"wopen", "write"} /\ sresult'[c].state # "raised"
      ]_vars

\* A call with use_cache found no cache file, the provider failed, the call
\* raised, and there is still no file.
C29_Witness ==
    \E c \in SynthCalls :
        /\ spc[c] = "done" /\ use_cache[c]
        /\ sresult[c].state = "raised" /\ sresult[c].data = <<"GoogleAPICallError">>
        /\ provider_calls[c] = 1
        /\ ~cache0[FileOf(c)].exists /\ ~cache[FileOf(c)].exists

(***************************************************************************)
(* Claims about POST /api/nlp/analyze                                      *)
(***************************************************************************)

\* C30: a request whose analysis_type is none of the four supported ones,
\* and whose analysis went through, is answered with 400 and 'Unsupported
\* analysis type'; a 500 is the answer only when the analyzer failed.
C30_UnsupportedTypeIs400 ==
    nlp_pc = "answered" =>
        /\ (nlp_request.analysis_type \notin SupportedAnalysisTypes /\ nlp_analyzer = "ok") =>
               /\ nlp_response.status_code = 400
               /\ nlp_response.detail =
                      "Unsupported analysis type: " \o nlp_request.analysis_type
        /\ nlp_response.status_code = 500 =>
               nlp_analyzer \in {"init_failed", "analyze_failed"}

====
